---- MODULE Spec2Model ----
(***************************************************************************)
(* A model of mem-db-utils: the settings class _DBConfig (config.py) and   *)
(* the suspending MemDBConnector (asyncio/__init__.py).                    *)
(*                                                                         *)
(* Python values are tagged records, so that None, strings and integers    *)
(* can be compared with one another: None is [t |-> "None"], a string is   *)
(* [t |-> "str", v |-> ...], an integer is [t |-> "int", v |-> ...].  A URI *)
(* is a string whose value is its sequence of characters, so that          *)
(* str.split and urlparse are computed character by character.  The other  *)
(* strings (connection type, master service) are never taken apart and     *)
(* are TLA+ strings.                                                       *)
(***************************************************************************)
EXTENDS Integers, Sequences, FiniteSets, TLC

VARIABLES
    env,        \* what _DBConfig() is constructed from (init arguments / environment)
    DBConfig,   \* config.py:46, the module-level settings object, or NoConfig
    errors,     \* the errors of the ValidationError _DBConfig() raised, {} if none
    ctor,       \* the arguments MemDBConnector(...) was constructed with, or NotCalled
    connector,  \* the MemDBConnector instance (its four slots), or NoConnector
    calls,      \* per task: the connect call it runs (position, arguments, the
                \* operations it issued, the exceptions the transport raised in it)
    running,    \* the task the event loop is running, or Nobody
    clients,    \* how many client objects the transport library has created
    started     \* how many connect calls have been started

vars == <<env, DBConfig, errors, ctor, connector, calls, running, clients, started>>

----------------------------------------------------------------------------
(* Python values *)

None == [t |-> "None"]
Str(s) == [t |-> "str", v |-> s]
Num(n) == [t |-> "int", v |-> n]

\* Python truth value of an Optional[str]: None and "" are falsy.
Truthy(x) == x # None /\ x # Str("")

\* An argument or setting that was not given at all.
Missing == [t |-> "missing"]

----------------------------------------------------------------------------
(* Characters and words *)

W_redis == <<"r", "e", "d", "i", "s">>
W_memcached == <<"m", "e", "m", "c", "a", "c", "h", "e", "d">>
W_dragonfly == <<"d", "r", "a", "g", "o", "n", "f", "l", "y">>
W_valkey == <<"v", "a", "l", "k", "e", "y">>
W_mysql == <<"m", "y", "s", "q", "l">>
W_Redis == <<"R", "e", "d", "i", "s">>
W_rediss == <<"r", "e", "d", "i", "s", "s">>
W_sep == <<":", "/", "/">>

\* DBType (config.py:8-12): a StrEnum, each member equal to its string value.
REDIS == Str("redis")
MEMCACHED == Str("memcached")
DRAGONFLY == Str("dragonfly")
VALKEY == Str("valkey")
DBType == {REDIS, MEMCACHED, DRAGONFLY, VALKEY}

\* s.find(sub): the least 1-based index at which sub occurs in s, 0 if none.
Find(s, sub) ==
    LET hits == {i \in 1..(Len(s) - Len(sub) + 1) : SubSeq(s, i, i + Len(sub) - 1) = sub}
    IN IF hits = {} THEN 0 ELSE CHOOSE i \in hits : \A j \in hits : i <= j

\* s.split("://")[0]: the text before the first "://", all of s if there is none.
SplitFirst_NoSplit(s) == s

SplitFirst(s) ==
    IF Find(s, W_sep) = 0 THEN s ELSE SubSeq(s, 1, Find(s, W_sep) - 1)

----------------------------------------------------------------------------
(* config.py: _DBConfig *)

NoConfig == [t |-> "NoConfig"]

\* db_url: str (config.py:16).  A required field: a value that is not given, or
\* is not a string, is an error of the field; every string, the empty one
\* included, is accepted as it is.
DbUrlErrors(x) ==
    IF x = Missing THEN {[loc |-> "db_url", type |-> "missing", detail |-> None]}
    ELSE IF x.t # "str" THEN {[loc |-> "db_url", type |-> "string_type", detail |-> None]}
    ELSE {}

\* info.data: the fields validated so far; db_url is in it only if it was valid.
InfoData(e) == IF DbUrlErrors(e.db_url) = {} THEN [db_url |-> e.db_url] ELSE <<>>

\* info.data.get("db_url", "")
DataGetDbUrl(data) == IF "db_url" \in DOMAIN data THEN data["db_url"].v ELSE <<>>

\* The match statement of validate_db_type (config.py:30-40) on the protocol.
MatchProtocol_Swapped(conn_protocol) ==
    IF conn_protocol = W_redis THEN [ok |-> TRUE, value |-> REDIS]
    ELSE IF conn_protocol = W_memcached THEN [ok |-> TRUE, value |-> MEMCACHED]
    ELSE IF conn_protocol = W_dragonfly THEN [ok |-> TRUE, value |-> VALKEY]
    ELSE IF conn_protocol = W_valkey THEN [ok |-> TRUE, value |-> DRAGONFLY]
    ELSE [ok |-> FALSE, value |-> Str(conn_protocol)]

MatchProtocol(conn_protocol) ==
    IF conn_protocol = W_redis THEN [ok |-> TRUE, value |-> REDIS]
    ELSE IF conn_protocol = W_memcached THEN [ok |-> TRUE, value |-> MEMCACHED]
    ELSE IF conn_protocol = W_dragonfly THEN [ok |-> TRUE, value |-> DRAGONFLY]
    ELSE IF conn_protocol = W_valkey THEN [ok |-> TRUE, value |-> VALKEY]
    ELSE [ok |-> FALSE, value |-> Str(conn_protocol)]

\* validate_db_type (config.py:26-41).  value is None or a DBType member; the
\* result is the member returned, or the protocol the ValueError names.
validate_db_type_AlwaysInfer(value, data) ==
    MatchProtocol(SplitFirst(DataGetDbUrl(data)))

validate_db_type(value, data) ==
    IF value = None
    THEN MatchProtocol(SplitFirst(DataGetDbUrl(data)))
    ELSE [ok |-> TRUE, value |-> value]

\* db_type: Optional[DBType] = None (config.py:17) with its validator.  A value
\* that is not given is the default None, which a settings class validates like
\* a given one; a string that is no DBType value is an error of the field and
\* the validator is not run on it.
DbTypeField_DefaultNotValidated(x, data) ==
    IF x = Missing THEN [ok |-> TRUE, value |-> None]
    ELSE IF x # None /\ x \notin DBType
    THEN [ok |-> FALSE, errs |-> {[loc |-> "db_type", type |-> "enum", detail |-> None]}]
    ELSE LET r == validate_db_type(x, data)
         IN IF r.ok
            THEN [ok |-> TRUE, value |-> r.value]
            ELSE [ok |-> FALSE,
                  errs |-> {[loc |-> "db_type", type |-> "value_error", detail |-> r.value]}]

DbTypeField(x, data) ==
    LET value == IF x = Missing THEN None ELSE x
    IN IF value # None /\ value \notin DBType
       THEN [ok |-> FALSE, errs |-> {[loc |-> "db_type", type |-> "enum", detail |-> None]}]
       ELSE LET r == validate_db_type(value, data)
            IN IF r.ok
               THEN [ok |-> TRUE, value |-> r.value]
               ELSE [ok |-> FALSE,
                     errs |-> {[loc |-> "db_type", type |-> "value_error",
                                detail |-> r.value]}]

\* db_timeout: Optional[int] = 30 (config.py:20)
DefaultTimeout == 30
DbTimeoutField(x) == IF x = Missing THEN Num(DefaultTimeout) ELSE x

\* Optional[str] = None (config.py:18-19)
OptStrField(x) == IF x = Missing THEN None ELSE x

\* _DBConfig(...): every field is validated, in the order of declaration, and
\* the errors of all fields are raised together.
ConfigErrors_UrlNotRequired(e) ==
    LET f == DbTypeField(e.db_type, InfoData(e)) IN IF f.ok THEN {} ELSE f.errs

ConfigErrors(e) ==
    DbUrlErrors(e.db_url)
        \cup (LET f == DbTypeField(e.db_type, InfoData(e)) IN IF f.ok THEN {} ELSE f.errs)

ConfigOf(e) ==
    [db_url |-> e.db_url,
     db_type |-> DbTypeField(e.db_type, InfoData(e)).value,
     redis_connection_type |-> OptStrField(e.redis_connection_type),
     redis_master_service |-> OptStrField(e.redis_master_service),
     db_timeout |-> DbTimeoutField(e.db_timeout)]

----------------------------------------------------------------------------
(* urllib.parse.urlparse, as far as asyncio/__init__.py:40-43 reads it *)

Letters == {"a", "c", "d", "e", "f", "g", "h", "i", "k", "l", "m", "n", "o", "p",
            "q", "r", "s", "v", "x", "y", "R"}
Digits == <<"0", "1", "2", "3", "4", "5", "6", "7", "8", "9">>
DigitChars == {Digits[i] : i \in 1..10}
SchemeChars == Letters \cup DigitChars \cup {"+", "-", "."}

Lower(ch) == IF ch = "R" THEN "r" ELSE ch
LowerAll(s) == [i \in 1..Len(s) |-> Lower(s[i])]

\* What is left of the URL once a leading "<scheme>:" is taken off.
AfterScheme(s) ==
    LET i == Find(s, <<":">>)
    IN IF i > 1 /\ s[1] \in Letters /\ \A j \in 1..(i - 1) : s[j] \in SchemeChars
       THEN SubSeq(s, i + 1, Len(s))
       ELSE s

\* The network location: what follows a leading "//", up to the first of / ? #.
Netloc(s) ==
    LET r == AfterScheme(s)
        ends == {i \in 3..Len(r) : r[i] \in {"/", "?", "#"}}
        stop == IF ends = {} THEN Len(r) + 1 ELSE CHOOSE i \in ends : \A j \in ends : i <= j
    IN IF Len(r) >= 2 /\ SubSeq(r, 1, 2) = <<"/", "/">> THEN SubSeq(r, 3, stop - 1) ELSE <<>>

\* netloc.rpartition("@"): the index of the last "@", 0 if there is none.
LastAt(n) ==
    LET ats == {i \in 1..Len(n) : n[i] = "@"}
    IN IF ats = {} THEN 0 ELSE CHOOSE i \in ats : \A j \in ats : j <= i

\* parsed_uri.password: the user information after its first ":", None without one.
UrlPassword(s) ==
    LET n == Netloc(s)
        userinfo == SubSeq(n, 1, LastAt(n) - 1)
        c == Find(userinfo, <<":">>)
    IN IF LastAt(n) = 0 \/ c = 0 THEN None ELSE Str(SubSeq(userinfo, c + 1, Len(userinfo)))

HostInfo(s) == LET n == Netloc(s) IN SubSeq(n, LastAt(n) + 1, Len(n))

\* parsed_uri.hostname: the host information before its first ":", in lower case,
\* None if that is empty.
UrlHostname(s) ==
    LET h == HostInfo(s)
        c == Find(h, <<":">>)
        name == IF c = 0 THEN h ELSE SubSeq(h, 1, c - 1)
    IN IF name = <<>> THEN None ELSE Str(LowerAll(name))

DigitValue(ch) == (CHOOSE i \in 1..10 : Digits[i] = ch) - 1

RECURSIVE ToInt(_)
ToInt(d) == IF d = <<>> THEN 0 ELSE 10 * ToInt(SubSeq(d, 1, Len(d) - 1)) + DigitValue(d[Len(d)])

\* parsed_uri.port: the integer after the first ":" of the host information, None
\* if nothing follows; a ValueError if that is no number or is out of range.
UrlPort(s) ==
    LET h == HostInfo(s)
        c == Find(h, <<":">>)
        p == IF c = 0 THEN <<>> ELSE SubSeq(h, c + 1, Len(h))
    IN IF p = <<>> THEN [ok |-> TRUE, value |-> None]
       ELSE IF (\A i \in 1..Len(p) : p[i] \in DigitChars) /\ ToInt(p) <= 65535
            THEN [ok |-> TRUE, value |-> Num(ToInt(p))]
            ELSE [ok |-> FALSE, value |-> None]

----------------------------------------------------------------------------
(* Bounds and the inputs drawn *)

MaxDb == 1          \* database indexes 0..MaxDb
MaxCalls == 2       \* connect calls started in one behaviour

Tasks == {"t1", "t2"}
Caller == "t1"
Nobody == "nobody"
NotCalled == [t |-> "NotCalled"]
NoConnector == [t |-> "NoConnector"]

\* The exceptions a transport operation is made to raise.
TransportErrors == {"ConnectionError", "TimeoutError"}

\* URIs: a scheme word, a separator, a remainder.
SchemeWords == {W_redis, W_memcached, W_dragonfly, W_valkey, W_mysql, W_Redis, W_rediss, <<>>}
Separators == {W_sep, <<>>, <<":", "/">>, <<":">>}
Remainders == {<<>>, <<"h", ":", "1">>, <<":", "p", "@", "h", ":", "1", "/", "0">>,
               <<"h", ":", "/", "/", "x">>}
AllUris == {w \o sp \o r : w \in SchemeWords, sp \in Separators, r \in Remainders}

DbUrlInputs == {Missing, None} \cup {Str(u) : u \in AllUris}
DbTypeInputs == {Missing, None, Str("mysql")} \cup DBType

\* The inputs of the behaviours that go on to construct a connector and connect.
U_sentinel == W_redis \o W_sep \o <<":", "p", "@", "h", ":", "1", "/", "0">>
U_plain == W_redis \o W_sep \o <<"h">>
U_badport == W_redis \o W_sep \o <<"h", ":", "x">>
U_memcached == W_memcached \o W_sep \o <<"h", ":", "1">>

ConnectEnvs ==
    {[db_url |-> Str(u), db_type |-> ty, redis_connection_type |-> ct,
      redis_master_service |-> ms, db_timeout |-> to] :
        u \in {U_sentinel, U_memcached}, ty \in {Missing, VALKEY},
        ct \in {Missing, Str("sentinel")}, ms \in {Missing, Str("mymaster")},
        to \in {Missing}}
        \cup {[db_url |-> Str(u), db_type |-> Missing,
               redis_connection_type |-> Str("sentinel"),
               redis_master_service |-> Str("mymaster"), db_timeout |-> to] :
                 u \in {U_plain, U_badport}, to \in {Missing, None, Num(5)}}

ResolveEnvs ==
    {[db_url |-> u, db_type |-> ty, redis_connection_type |-> Missing,
      redis_master_service |-> Missing, db_timeout |-> Missing] :
        u \in DbUrlInputs, ty \in DbTypeInputs}

RedisTypeArgs == {None, Str(""), Str("sentinel"), Str("direct")}
MasterServiceArgs == {None, Str(""), Str("custom")}

\* The arguments of one connect call: each of db, decode_response and timeout is
\* given or left out.
DbArgs == {<<>>} \cup {("db" :> n) : n \in 0..MaxDb}
DecodeArgs == {<<>>} \cup {("decode_response" :> b) : b \in BOOLEAN}
TimeoutArgs == {<<>>, ("timeout" :> None), ("timeout" :> Num(7))}
CallArgs == {a @@ b @@ c : a \in DbArgs, b \in DecodeArgs, c \in TimeoutArgs}

----------------------------------------------------------------------------
(* asyncio/__init__.py: MemDBConnector *)

\* urlparse(self.uri) (asyncio/__init__.py:40): the three attributes _sentinel
\* reads, worked out once for the URLs of the inputs.
ModelUrls == {U_sentinel, U_plain, U_badport, U_memcached}
Hostnames == [s \in ModelUrls |-> UrlHostname(s)]
Ports == [s \in ModelUrls |-> UrlPort(s)]
Passwords == [s \in ModelUrls |-> UrlPassword(s)]

\* kwargs.get(k, default)
Get(kwargs, k, default) == IF k \in DOMAIN kwargs THEN kwargs[k] ELSE default

Or_ConfigFirst(x, y) == IF Truthy(y) THEN y ELSE x

\* x or y
Or(x, y) == IF Truthy(x) THEN x ELSE y

NewConnector_AnyType(redis_type, master_service) ==
    [uri |-> DBConfig.db_url, db_type |-> DBConfig.db_type,
     connection_type |-> Or(redis_type, DBConfig.redis_connection_type),
     service |-> Or(master_service, DBConfig.redis_master_service)]

\* __init__ (asyncio/__init__.py:11-18): the four slots.
NewConnector(redis_type, master_service) ==
    IF DBConfig.db_type = REDIS
    THEN [uri |-> DBConfig.db_url, db_type |-> DBConfig.db_type,
          connection_type |-> Or(redis_type, DBConfig.redis_connection_type),
          service |-> Or(master_service, DBConfig.redis_master_service)]
    ELSE [uri |-> DBConfig.db_url, db_type |-> DBConfig.db_type,
          connection_type |-> None, service |-> None]

IdleCall == [pc |-> "idle", args |-> <<>>, events |-> <<>>, faults |-> <<>>,
             handle |-> 0, result |-> [kind |-> "none"]]

DbOf_DefaultOne(args) == Get(args, "db", 1)

\* connect(self, db: int = 0, **kwargs): the db the body sees.
DbOf(args) == Get(args, "db", 0)

DecodeResponses_OtherKey(args) == Get(args, "decode_responses", TRUE)

\* kwargs.get("decode_response", True) (asyncio/__init__.py:30 and :53)
DecodeResponses(args) == Get(args, "decode_response", TRUE)

SocketTimeout_ConfigOnly(args) == DBConfig.db_timeout

\* kwargs.get("timeout", DBConfig.db_timeout) (asyncio/__init__.py:48)
SocketTimeout(args) == Get(args, "timeout", DBConfig.db_timeout)

\* if self.connection_type == "sentinel" (asyncio/__init__.py:28)
TakesSentinel(c) == c.connection_type = Str("sentinel")

Raised_Wrapped(e) == [kind |-> "raised", error |-> "ConnectionError"]

\* No try statement stands in connect or _sentinel: the exception that leaves
\* the call is the one that was raised in it.
Raised(e) == [kind |-> "raised", error |-> e]
Returned(h) == [kind |-> "returned", handle |-> h]

----------------------------------------------------------------------------
(* Actions *)

Outcomes == {"ok"} \cup TransportErrors

Finish(t, res, evs) ==
    /\ calls' = [calls EXCEPT ![t].pc = "done", ![t].result = res, ![t].events = evs]
    /\ running' = Nobody

\* A transport operation raises e in the call of t: the exception leaves connect.
Fail(t, e, evs) ==
    /\ calls' = [calls EXCEPT ![t].pc = "done", ![t].result = Raised(e),
                              ![t].events = evs,
                              ![t].faults = Append(calls[t].faults, e)]
    /\ running' = Nobody

\* DBConfig = _DBConfig() (config.py:46)
Resolve ==
    /\ DBConfig = NoConfig /\ errors = {}
    /\ errors' = ConfigErrors(env)
    /\ DBConfig' = IF ConfigErrors(env) = {} THEN ConfigOf(env) ELSE NoConfig
    /\ UNCHANGED <<env, ctor, connector, calls, running, clients, started>>

\* MemDBConnector(redis_type, master_service) (asyncio/__init__.py:11-18)
Construct(redis_type, master_service) ==
    /\ DBConfig # NoConfig /\ connector = NoConnector
    /\ ctor' = [redis_type |-> redis_type, master_service |-> master_service]
    /\ connector' = NewConnector(redis_type, master_service)
    /\ UNCHANGED <<env, DBConfig, errors, calls, running, clients, started>>

Connect_Retains(t, args) ==
    /\ connector # NoConnector /\ running = Nobody /\ started < MaxCalls
    /\ calls[t].pc \in {"idle", "done"}
    /\ calls' = [calls EXCEPT ![t].args = args,
                              ![t].pc = IF TakesSentinel(connector)
                                        THEN "Sentinel" ELSE "from_url"]
    /\ running' = t
    /\ started' = started + 1
    /\ UNCHANGED <<env, DBConfig, errors, ctor, connector, clients>>

\* A task starts connector.connect(**args) and runs to the test of line 28.
Connect(t, args) ==
    /\ connector # NoConnector /\ running = Nobody /\ started < MaxCalls
    /\ calls[t].pc \in {"idle", "done"}
    /\ calls' = [calls EXCEPT ![t] =
                    [IdleCall EXCEPT !.args = args,
                                     !.pc = IF TakesSentinel(connector)
                                            THEN "Sentinel" ELSE "from_url"]]
    /\ running' = t
    /\ started' = started + 1
    /\ UNCHANGED <<env, DBConfig, errors, ctor, connector, clients>>

\* aioredis.from_url(url=..., db=..., decode_responses=...) and the start of
\* its await (asyncio/__init__.py:30)
FromUrl(t, outcome) ==
    LET a == calls[t].args
        ev == [op |-> "from_url", url |-> connector.uri, db |-> DbOf(a),
               decode_responses |-> DecodeResponses(a)]
        evs == Append(calls[t].events, ev)
    IN /\ running = t /\ calls[t].pc = "from_url"
       /\ IF outcome = "ok"
          THEN /\ clients' = clients + 1
               /\ calls' = [calls EXCEPT ![t].pc = "await_from_url", ![t].events = evs,
                                         ![t].handle = clients + 1]
               /\ running' = Nobody
          ELSE /\ Fail(t, outcome, evs)
               /\ UNCHANGED clients
       /\ UNCHANGED <<env, DBConfig, errors, ctor, connector, started>>

\* The await of line 30 completes: connect returns what it produced, or raises.
ResumeFromUrl(t, outcome) ==
    /\ running = Nobody /\ calls[t].pc = "await_from_url"
    /\ IF outcome = "ok"
       THEN Finish(t, Returned(calls[t].handle), calls[t].events)
       ELSE Fail(t, outcome, calls[t].events)
    /\ UNCHANGED <<env, DBConfig, errors, ctor, connector, clients, started>>

SentinelNew_Awaited(t, outcome) ==
    LET a == calls[t].args
        u == connector.uri.v
        ev == [op |-> "Sentinel", hosts |-> <<<<Hostnames[u], Ports[u].value>>>>,
               socket_timeout |-> SocketTimeout(a), password |-> Passwords[u]]
        evs == Append(calls[t].events, ev)
    IN /\ running = t /\ calls[t].pc = "Sentinel"
       /\ IF ~Ports[u].ok
          THEN /\ outcome = "ok"
               /\ Finish(t, Raised("ValueError"), calls[t].events)
          ELSE IF outcome = "ok"
          THEN /\ calls' = [calls EXCEPT ![t].pc = "master_for", ![t].events = evs]
               /\ running' = Nobody
          ELSE Fail(t, outcome, evs)
       /\ UNCHANGED <<env, DBConfig, errors, ctor, connector, clients, started>>

\* _sentinel: urlparse and aioredis.Sentinel(...) (asyncio/__init__.py:40-50)
SentinelNew(t, outcome) ==
    LET a == calls[t].args
        u == connector.uri.v
        ev == [op |-> "Sentinel", hosts |-> <<<<Hostnames[u], Ports[u].value>>>>,
               socket_timeout |-> SocketTimeout(a), password |-> Passwords[u]]
        evs == Append(calls[t].events, ev)
    IN /\ running = t /\ calls[t].pc = "Sentinel"
       /\ IF ~Ports[u].ok
          THEN /\ outcome = "ok"
               /\ Finish(t, Raised("ValueError"), calls[t].events)
          ELSE IF outcome = "ok"
          THEN /\ calls' = [calls EXCEPT ![t].pc = "master_for", ![t].events = evs]
               /\ UNCHANGED running
          ELSE Fail(t, outcome, evs)
       /\ UNCHANGED <<env, DBConfig, errors, ctor, connector, clients, started>>

MasterFor_Retry(t, outcome) ==
    LET a == calls[t].args
        ev == [op |-> "master_for", service |-> connector.service,
               decode_responses |-> DecodeResponses(a)]
        evs == Append(calls[t].events, ev)
    IN /\ running = t /\ calls[t].pc = "master_for"
       /\ IF outcome = "ok"
          THEN /\ clients' = clients + 1
               /\ calls' = [calls EXCEPT ![t].pc = "select", ![t].events = evs,
                                         ![t].handle = clients + 1]
               /\ UNCHANGED running
          ELSE IF calls[t].faults = <<>>
          THEN /\ calls' = [calls EXCEPT ![t].events = evs,
                                         ![t].faults = Append(calls[t].faults, outcome)]
               /\ UNCHANGED <<running, clients>>
          ELSE /\ Fail(t, outcome, evs)
               /\ UNCHANGED clients
       /\ UNCHANGED <<env, DBConfig, errors, ctor, connector, started>>

\* sentinel.master_for(self.service, decode_responses=...) (asyncio/__init__.py:53)
MasterFor(t, outcome) ==
    LET a == calls[t].args
        ev == [op |-> "master_for", service |-> connector.service,
               decode_responses |-> DecodeResponses(a)]
        evs == Append(calls[t].events, ev)
    IN /\ running = t /\ calls[t].pc = "master_for"
       /\ IF outcome = "ok"
          THEN /\ clients' = clients + 1
               /\ calls' = [calls EXCEPT ![t].pc = "select", ![t].events = evs,
                                         ![t].handle = clients + 1]
               /\ UNCHANGED running
          ELSE /\ Fail(t, outcome, evs)
               /\ UNCHANGED clients
       /\ UNCHANGED <<env, DBConfig, errors, ctor, connector, started>>

Select_Skipped(t) ==
    /\ running = t /\ calls[t].pc = "select"
    /\ calls' = [calls EXCEPT ![t].pc = "await_select"]
    /\ running' = Nobody
    /\ UNCHANGED <<env, DBConfig, errors, ctor, connector, clients, started>>

\* connection_object.select(db) is issued and awaited (asyncio/__init__.py:54)
Select(t) ==
    LET ev == [op |-> "select", client |-> calls[t].handle, db |-> DbOf(calls[t].args)]
    IN /\ running = t /\ calls[t].pc = "select"
       /\ calls' = [calls EXCEPT ![t].pc = "await_select",
                                 ![t].events = Append(calls[t].events, ev)]
       /\ running' = Nobody
       /\ UNCHANGED <<env, DBConfig, errors, ctor, connector, clients, started>>

ResumeSelect_Shared(t, outcome) ==
    /\ running = Nobody /\ calls[t].pc = "await_select"
    /\ IF outcome = "ok"
       THEN Finish(t, Returned(clients), calls[t].events)
       ELSE Fail(t, outcome, calls[t].events)
    /\ UNCHANGED <<env, DBConfig, errors, ctor, connector, clients, started>>

\* The await of line 54 completes; return connection_object (line 55), or raise.
ResumeSelect(t, outcome) ==
    /\ running = Nobody /\ calls[t].pc = "await_select"
    /\ IF outcome = "ok"
       THEN Finish(t, Returned(calls[t].handle), calls[t].events)
       ELSE Fail(t, outcome, calls[t].events)
    /\ UNCHANGED <<env, DBConfig, errors, ctor, connector, clients, started>>

----------------------------------------------------------------------------
(* Specifications *)

InitWith(envs) ==
    /\ env \in envs
    /\ DBConfig = NoConfig
    /\ errors = {}
    /\ ctor = NotCalled
    /\ connector = NoConnector
    /\ calls = [t \in Tasks |-> IdleCall]
    /\ running = Nobody
    /\ clients = 0
    /\ started = 0

Init == InitWith(ConnectEnvs)

\* One caller: connect calls one after the other.
Next ==
    \/ Resolve
    \/ \E rt \in RedisTypeArgs, ms \in MasterServiceArgs : Construct(rt, ms)
    \/ \E a \in CallArgs : Connect(Caller, a)
    \/ \E o \in Outcomes : FromUrl(Caller, o)
    \/ \E o \in Outcomes : ResumeFromUrl(Caller, o)
    \/ \E o \in Outcomes : SentinelNew(Caller, o)
    \/ \E o \in Outcomes : MasterFor(Caller, o)
    \/ Select(Caller)
    \/ \E o \in Outcomes : ResumeSelect(Caller, o)

Spec == Init /\ [][Next]_vars

\* Configuration resolution alone, over every URI and store type input.
ResolveInit == InitWith(ResolveEnvs)
ResolveNext == Resolve
ResolveSpec == ResolveInit /\ [][ResolveNext]_vars

----------------------------------------------------------------------------
(* Configuration resolution: what the claims speak of *)

StoreTypeWords == {W_redis, W_memcached, W_dragonfly, W_valkey}

\* The store type the specification maps a scheme word to.
MappedType(w) ==
    CASE w = W_redis -> REDIS
      [] w = W_memcached -> MEMCACHED
      [] w = W_dragonfly -> DRAGONFLY
      [] w = W_valkey -> VALKEY

Resolved == DBConfig # NoConfig \/ errors # {}
UriGiven == env.db_url.t = "str"
NoExplicitType == env.db_type \in {Missing, None}

\* u begins with the word w followed by "://": w is then the text before the
\* first "://" of u, as no store type word contains "://".
BeginsWith(u, w) == Len(u) >= Len(w) + 3 /\ SubSeq(u, 1, Len(w) + 3) = w \o W_sep

\* The places of u at which "://" stands and before which it stands nowhere.
FirstSeps(u) ==
    {i \in 1..Len(u) : /\ i + 2 <= Len(u)
                       /\ <<u[i], u[i + 1], u[i + 2]>> = W_sep
                       /\ \A j \in 1..(i - 1) : <<u[j], u[j + 1], u[j + 2]>> # W_sep}

\* The scheme of u: the text before its first "://", u itself without any.
SchemeOf(u) ==
    IF FirstSeps(u) = {} THEN u
    ELSE [k \in 1..((CHOOSE i \in FirstSeps(u) : TRUE) - 1) |-> u[k]]

UnsupportedProtocolError(scheme) ==
    [loc |-> "db_type", type |-> "value_error", detail |-> Str(scheme)]
MissingUriErrors == {e \in errors : e.loc = "db_url"}

\* C1: a URI that begins with redis://, memcached://, dragonfly:// or valkey://,
\* resolved with no explicit store type, yields a configuration whose store type
\* is the one the scheme maps to.
C1_SchemeMapsToType ==
    \A w \in StoreTypeWords :
        (Resolved /\ UriGiven /\ NoExplicitType /\ BeginsWith(env.db_url.v, w))
            => (DBConfig # NoConfig /\ DBConfig.db_type = MappedType(w))

C1_Witness ==
    /\ DBConfig # NoConfig /\ env.db_type = Missing
    /\ BeginsWith(env.db_url.v, W_valkey) /\ DBConfig.db_type = VALKEY

\* C2: a URI whose scheme is none of the four words (the empty scheme included),
\* resolved with no explicit store type, produces no configuration and the
\* unsupported-protocol error that names that scheme.
C2_UnsupportedSchemeFails ==
    (Resolved /\ UriGiven /\ NoExplicitType /\ SchemeOf(env.db_url.v) \notin StoreTypeWords)
        => (DBConfig = NoConfig
            /\ UnsupportedProtocolError(SchemeOf(env.db_url.v)) \in errors)

C2_Witness ==
    /\ Resolved /\ UriGiven /\ env.db_type = None
    /\ env.db_url.v = W_mysql \o W_sep \o <<"h", ":", "1">>
    /\ errors = {UnsupportedProtocolError(W_mysql)}

C2_WitnessEmptyScheme ==
    /\ Resolved /\ UriGiven /\ NoExplicitType
    /\ env.db_url.v = W_sep \o <<"h", ":", "1">>
    /\ errors = {UnsupportedProtocolError(<<>>)}

\* C3 as stated: an absent or an empty URI always fails with the missing-URI
\* error, with or without an explicit store type.
C3_AbsentOrEmptyUriFails ==
    (Resolved /\ env.db_url \in {Missing, None, Str(<<>>)})
        => (DBConfig = NoConfig /\ MissingUriErrors # {})

\* C3 as amended: an absent URI (not given, or null) always fails with the
\* missing-URI error, with or without an explicit store type; the empty string
\* is a URI like any other: with an explicit store type it resolves, with none
\* it fails with the unsupported-protocol error that names the empty scheme.
C3_AbsentUriFails ==
    /\ (Resolved /\ env.db_url \in {Missing, None})
           => (DBConfig = NoConfig /\ MissingUriErrors # {})
    /\ (Resolved /\ env.db_url = Str(<<>>))
           => /\ MissingUriErrors = {}
              /\ env.db_type \in DBType => DBConfig # NoConfig
              /\ NoExplicitType => errors = {UnsupportedProtocolError(<<>>)}

C3_Witness ==
    /\ Resolved /\ env.db_url = Missing /\ env.db_type = REDIS
    /\ DBConfig = NoConfig /\ MissingUriErrors # {}

\* C4: with an explicit store type, every URI resolves to exactly that store
\* type, whatever its scheme.
C4_ExplicitTypeWins ==
    (Resolved /\ UriGiven /\ env.db_type \in DBType)
        => (DBConfig # NoConfig /\ DBConfig.db_type = env.db_type)

C4_Witness ==
    /\ DBConfig # NoConfig /\ env.db_type = VALKEY
    /\ BeginsWith(env.db_url.v, W_redis) /\ DBConfig.db_type = VALKEY

C4_WitnessNoType ==
    /\ DBConfig # NoConfig /\ env.db_type = MEMCACHED
    /\ SchemeOf(env.db_url.v) = W_mysql /\ DBConfig.db_type = MEMCACHED

\* C5: every configuration that resolution produces has its store type set to
\* one of the four, also when the store type was not given at all.
C5_StoreTypeAlwaysSet ==
    DBConfig # NoConfig => DBConfig.db_type \in DBType

C5_Witness ==
    /\ DBConfig # NoConfig /\ env.db_type = Missing /\ DBConfig.db_type = REDIS

----------------------------------------------------------------------------
(* The connector and its connect calls: what the claims speak of *)

Constructed == connector # NoConnector
SentinelMode == Constructed /\ connector.connection_type = Str("sentinel")
DirectMode == Constructed /\ connector.connection_type # Str("sentinel")

SentinelPcs == {"Sentinel", "master_for", "select", "await_select"}
SentinelOps == <<"Sentinel", "master_for", "select">>

\* The call of the caller, the operations it has issued, and its arguments as
\* the caller gave them: db = N (0 when left out), decode_response (true when
\* left out).
TheCall == calls[Caller]
OpsOf(c) == [i \in 1..Len(c.events) |-> c.events[i].op]
GivenDb(c) == IF "db" \in DOMAIN c.args THEN c.args["db"] ELSE 0
GivenDecode(c) == IF "decode_response" \in DOMAIN c.args THEN c.args["decode_response"] ELSE TRUE
IsPrefix(a, b) == Len(a) <= Len(b) /\ a = SubSeq(b, 1, Len(a))

\* C6: a connector whose store type is not redis has connection_type and
\* service unset, whatever the overrides and the configured sentinel settings,
\* and none of its connect calls enters the sentinel path.
C6_NonRedisNeverSentinel ==
    (Constructed /\ connector.db_type # REDIS)
        => /\ connector.connection_type = None
           /\ connector.service = None
           /\ \A t \in Tasks :
                 /\ calls[t].pc \notin SentinelPcs
                 /\ \A i \in 1..Len(calls[t].events) : calls[t].events[i].op = "from_url"

C6_Witness ==
    /\ Constructed /\ connector.db_type = MEMCACHED
    /\ ctor.redis_type = Str("sentinel") /\ ctor.master_service = Str("custom")
    /\ DBConfig.redis_connection_type = Str("sentinel")
    /\ DBConfig.redis_master_service = Str("mymaster")
    /\ TheCall.pc = "done" /\ TheCall.result.kind = "returned"

\* C7 as stated: on a redis connector connection_type is the override whenever
\* the override is not null (the empty string included) and the configured
\* redis_connection_type otherwise; service likewise.
C7_OverrideUnlessNull ==
    (Constructed /\ connector.db_type = REDIS)
        => /\ connector.connection_type =
                 IF ctor.redis_type # None THEN ctor.redis_type
                 ELSE DBConfig.redis_connection_type
           /\ connector.service =
                 IF ctor.master_service # None THEN ctor.master_service
                 ELSE DBConfig.redis_master_service

\* C7 as amended: on a redis connector connection_type is the override whenever
\* the override is a non-empty string, and the configured redis_connection_type
\* when the override is null or the empty string; service likewise.
C7_OverrideUnlessEmpty ==
    (Constructed /\ connector.db_type = REDIS)
        => /\ connector.connection_type =
                 IF ctor.redis_type \notin {None, Str("")} THEN ctor.redis_type
                 ELSE DBConfig.redis_connection_type
           /\ connector.service =
                 IF ctor.master_service \notin {None, Str("")} THEN ctor.master_service
                 ELSE DBConfig.redis_master_service

C7_Witness ==
    /\ Constructed /\ connector.db_type = REDIS
    /\ ctor.redis_type = Str("direct") /\ DBConfig.redis_connection_type = Str("sentinel")
    /\ connector.connection_type = Str("direct")
    /\ ctor.master_service = Str("") /\ connector.service = Str("mymaster")

\* C8: when connection_type is not "sentinel", a connect call issues nothing
\* before from_url, then exactly the one request from_url(url = the connector's
\* uri, db = N, decode_responses = ...), no sentinel operation, and what it
\* returns is the handle that request produced.
C8_DirectRequest ==
    DirectMode
        => /\ TheCall.pc \notin SentinelPcs
           /\ TheCall.pc = "from_url" => TheCall.events = <<>>
           /\ TheCall.pc \in {"await_from_url", "done"}
                 => /\ OpsOf(TheCall) = <<"from_url">>
                    /\ DOMAIN TheCall.events[1] = {"op", "url", "db", "decode_responses"}
                    /\ TheCall.events[1].url = connector.uri
                    /\ TheCall.events[1].db = GivenDb(TheCall)
           /\ TheCall.result.kind = "returned"
                 => /\ TheCall.handle \in 1..clients
                    /\ TheCall.result.handle = TheCall.handle

C8_Witness ==
    /\ DirectMode /\ TheCall.pc = "done" /\ TheCall.result.kind = "returned"
    /\ "db" \notin DOMAIN TheCall.args /\ TheCall.events[1].db = 0
    /\ connector.db_type = REDIS /\ started = 2

\* C9, the states: on the sentinel path the operations issued so far are a
\* prefix of Sentinel, master_for, select; master_for asks for the connector's
\* service; select carries N and goes to the handle master_for produced; a
\* handle is returned only after all three, and it is that handle.
C9_Order ==
    SentinelMode
        => /\ IsPrefix(OpsOf(TheCall), SentinelOps)
           /\ Len(TheCall.events) >= 2 => TheCall.events[2].service = connector.service
           /\ Len(TheCall.events) = 3
                 => /\ TheCall.handle \in 1..clients
                    /\ TheCall.events[3].client = TheCall.handle
                    /\ TheCall.events[3].db = GivenDb(TheCall)
           /\ TheCall.result.kind = "returned"
                 => /\ OpsOf(TheCall) = SentinelOps
                    /\ TheCall.result.handle = TheCall.handle

\* C9, the steps: select is issued by a call whose master_for has returned a
\* handle, and a handle is returned only by the step that completes the awaited
\* select.
C9_Step ==
    SentinelMode
        => /\ (Len(TheCall.events) = 2 /\ Len(TheCall.events') = 3)
                 => (TheCall.pc = "select" /\ TheCall.handle >= 1
                     /\ TheCall.handle' = TheCall.handle)
           /\ (TheCall.result.kind # "returned" /\ TheCall.result.kind' = "returned")
                 => (TheCall.pc = "await_select" /\ TheCall.events' = TheCall.events)

\* C9: one connect call on the sentinel path constructs the sentinel client,
\* resolves the master of the connector's service, issues SELECT N once on the
\* resolved handle, and only then returns that handle.
C9_SentinelOrder == []C9_Order /\ [][C9_Step]_vars

C9_Witness ==
    /\ SentinelMode /\ TheCall.pc = "done" /\ TheCall.result.kind = "returned"
    /\ OpsOf(TheCall) = SentinelOps /\ TheCall.events[3].db = 1
    /\ TheCall.events[2].service = Str("custom")

\* C10: the decode_responses the transport receives, in from_url and in
\* master_for, is the caller's decode_response, and true when the caller gave
\* none.
C10_DecodeResponsesPassed ==
    \A i \in 1..Len(TheCall.events) :
        TheCall.events[i].op \in {"from_url", "master_for"}
            => TheCall.events[i].decode_responses = GivenDecode(TheCall)

C10_Witness ==
    /\ SentinelMode /\ Len(TheCall.events) >= 2
    /\ "decode_response" \in DOMAIN TheCall.args /\ TheCall.args["decode_response"] = FALSE
    /\ TheCall.events[2].decode_responses = FALSE

C10_WitnessDirect ==
    /\ DirectMode /\ Len(TheCall.events) = 1
    /\ "decode_response" \notin DOMAIN TheCall.args
    /\ TheCall.events[1].decode_responses = TRUE

\* C11: an exception that a transport operation raises in a connect call (in
\* from_url or its await, in the construction of the sentinel client, in
\* master_for, in the awaited select) is the exception that leaves the call, on
\* both paths; a call in which one was raised returns no handle.
C11_FailureSurfaced ==
    \A t \in Tasks :
        /\ calls[t].faults # <<>>
              => /\ calls[t].pc = "done"
                 /\ Len(calls[t].faults) = 1
                 /\ calls[t].result.kind = "raised"
                 /\ calls[t].result.error = calls[t].faults[1]
        /\ calls[t].result.kind = "returned" => calls[t].faults = <<>>

C11_Witness ==
    /\ SentinelMode /\ TheCall.faults = <<"TimeoutError">>
    /\ OpsOf(TheCall) = SentinelOps
    /\ TheCall.result.kind = "raised" /\ TheCall.result.error = "TimeoutError"

C11_WitnessDirect ==
    /\ DirectMode /\ TheCall.faults = <<"TimeoutError">>
    /\ TheCall.result.kind = "raised" /\ TheCall.result.error = "TimeoutError"

\* The attributes an instance can hold (asyncio/__init__.py:9).
Slots == {"uri", "db_type", "connection_type", "service"}

\* C12: through every sequence of connect calls, ended in a return or in an
\* exception, on either path, the connector holds its four fields and nothing
\* else, with the values construction gave them; no step of a call changes
\* the connector; and a call that starts, also after a failed one, starts
\* from the state a first call starts from: nothing of an earlier call is
\* left in it.
C12_Fields ==
    Constructed => /\ DOMAIN connector = Slots
                   /\ connector = NewConnector(ctor.redis_type, ctor.master_service)

C12_Step ==
    /\ Constructed => connector' = connector
    /\ started' = started + 1
          => calls'[Caller] = [IdleCall EXCEPT !.args = calls'[Caller].args,
                                               !.pc = IF SentinelMode THEN "Sentinel"
                                                      ELSE "from_url"]

C12_ConnectorUnchanged == []C12_Fields /\ [][C12_Step]_vars

\* A second call returned the first handle ever made: the call before it
\* failed before it had one.
C12_Witness ==
    /\ started = 2 /\ clients = 1
    /\ TheCall.pc = "done" /\ TheCall.result = Returned(1)
    /\ connector = NewConnector(ctor.redis_type, ctor.master_service)

----------------------------------------------------------------------------
(* Tasks on one connector *)

\* One redis URL, configured for the sentinel or for the direct path.
ConcurrentEnvs ==
    {[db_url |-> Str(U_sentinel), db_type |-> Missing, redis_connection_type |-> ct,
      redis_master_service |-> Str("mymaster"), db_timeout |-> Missing] :
        ct \in {Missing, Str("sentinel")}}

ConcurrentArgs == {a \in CallArgs : "timeout" \notin DOMAIN a}

ConcurrentInit == InitWith(ConcurrentEnvs)

\* The tasks of one event loop call connect on the connector they share: a task
\* runs until it awaits, then any task whose await has completed, or one that
\* starts a call, runs next.
ConcurrentNext ==
    \/ Resolve
    \/ Construct(None, None)
    \/ \E t \in Tasks, a \in ConcurrentArgs : Connect(t, a)
    \/ \E t \in Tasks, o \in Outcomes : FromUrl(t, o)
    \/ \E t \in Tasks, o \in Outcomes : ResumeFromUrl(t, o)
    \/ \E t \in Tasks, o \in Outcomes : SentinelNew(t, o)
    \/ \E t \in Tasks, o \in Outcomes : MasterFor(t, o)
    \/ \E t \in Tasks : Select(t)
    \/ \E t \in Tasks, o \in Outcomes : ResumeSelect(t, o)

ConcurrentSpec == ConcurrentInit /\ [][ConcurrentNext]_vars

\* The operations a call issues when it runs alone and none fails, by name.
PathOps == IF SentinelMode THEN SentinelOps ELSE <<"from_url">>

\* What a call shows is what its own arguments give it.
OwnCall(t) ==
    LET c == calls[t]
    IN /\ IsPrefix(OpsOf(c), PathOps)
       /\ \A i \in 1..Len(c.events) :
            LET e == c.events[i]
            IN /\ e.op \in {"from_url", "select"} => e.db = GivenDb(c)
               /\ e.op \in {"from_url", "master_for"} => e.decode_responses = GivenDecode(c)
               /\ e.op = "from_url" => e.url = connector.uri
               /\ e.op = "master_for" => e.service = connector.service
               /\ e.op = "select" => e.client = c.handle /\ c.handle # 0
       /\ c.result.kind = "returned"
             => /\ c.result.handle = c.handle /\ c.handle # 0
                /\ OpsOf(c) = PathOps /\ c.faults = <<>>
       /\ c.result.kind = "raised" /\ c.faults # <<>> => c.result.error = c.faults[1]

\* C14: with the connect calls of the tasks interleaved in every way, each
\* call issues the operations its own arguments give, a call that returns
\* returns the handle made in that call, select goes to the handle master_for
\* gave that same call with that call's db, two calls in flight never hold
\* the same handle, and a step of one call changes nothing of another call.
C14_Own ==
    /\ \A t \in Tasks : calls[t].pc # "idle" => OwnCall(t)
    /\ \A t, u \in Tasks : t # u /\ calls[t].handle # 0 => calls[t].handle # calls[u].handle

C14_Step ==
    \A t, u \in Tasks : t # u /\ calls'[t] # calls[t] => calls'[u] = calls[u]

C14_Independent == []C14_Own /\ [][C14_Step]_vars

\* Two sentinel calls suspended in select at the same time, each on its own
\* handle with its own db.
C14_Witness ==
    /\ SentinelMode
    /\ calls["t1"].pc = "await_select" /\ calls["t2"].pc = "await_select"
    /\ calls["t1"].handle = 2 /\ calls["t2"].handle = 1
    /\ GivenDb(calls["t1"]) = 0 /\ GivenDb(calls["t2"]) = 1
    /\ calls["t1"].events[3] = [op |-> "select", client |-> 2, db |-> 0]
    /\ calls["t2"].events[3] = [op |-> "select", client |-> 1, db |-> 1]

\* The call that started first ends last, and each returned its own handle.
C14_WitnessReturned ==
    /\ calls["t1"].result = Returned(1) /\ calls["t2"].result = Returned(2)
    /\ running = Nobody /\ clients = 2 /\ started = 2

----------------------------------------------------------------------------
(* The sentinel client's arguments *)

\* What the URLs of the model name: the network location and the credential.
EndpointOf(u) ==
    IF u = U_sentinel THEN <<Str(<<"h">>), Num(1)>>
    ELSE IF u = U_plain THEN <<Str(<<"h">>), None>>
    ELSE <<None, None>>
PasswordOf(u) == IF u = U_sentinel THEN Str(<<"p">>) ELSE None

SentinelEventsOf(c) == {i \in 1..Len(c.events) : c.events[i].op = "Sentinel"}

\* The sentinel client is made once in a call on the sentinel path, before
\* anything else, from the one endpoint and the password of the connector's
\* URL.
SentinelMadeOnce ==
    LET c == TheCall
    IN /\ SentinelEventsOf(c) \subseteq {1}
       /\ SentinelMode /\ (c.pc \in {"master_for", "select", "await_select"}
                              \/ c.result.kind = "returned")
             => SentinelEventsOf(c) = {1}
       /\ \A i \in SentinelEventsOf(c) :
            /\ c.events[i].hosts = <<EndpointOf(connector.uri.v)>>
            /\ c.events[i].password = PasswordOf(connector.uri.v)

TimeoutPassed == "timeout" \in DOMAIN TheCall.args

\* C15 as stated: made once, with the endpoint and the password, and with the
\* caller's timeout when it is given and not null, the configured timeout in
\* every other case.
C15_TimeoutOrConfigured ==
    /\ SentinelMadeOnce
    /\ \A i \in SentinelEventsOf(TheCall) :
          TheCall.events[i].socket_timeout =
              IF TimeoutPassed /\ TheCall.args["timeout"] # None
              THEN TheCall.args["timeout"] ELSE DBConfig.db_timeout

\* C15, amended: made once, with the endpoint and the password, and with the
\* timeout argument whenever the caller passes one, null too; the configured
\* timeout only when the caller passes none.
C15_TimeoutAsPassed ==
    /\ SentinelMadeOnce
    /\ \A i \in SentinelEventsOf(TheCall) :
          TheCall.events[i].socket_timeout =
              IF TimeoutPassed THEN TheCall.args["timeout"] ELSE DBConfig.db_timeout

\* A null timeout went to the sentinel client though 30 is configured.
C15_Witness ==
    /\ SentinelMode /\ connector.uri.v = U_plain
    /\ TimeoutPassed /\ TheCall.args["timeout"] = None
    /\ DBConfig.db_timeout = Num(DefaultTimeout)
    /\ SentinelEventsOf(TheCall) = {1}
    /\ TheCall.events[1] = [op |-> "Sentinel", hosts |-> << <<Str(<<"h">>), None>> >>,
                            socket_timeout |-> None, password |-> None]

C15_WitnessConfigured ==
    /\ SentinelMode /\ connector.uri.v = U_sentinel /\ ~TimeoutPassed
    /\ TheCall.result.kind = "returned"
    /\ TheCall.events[1] = [op |-> "Sentinel", hosts |-> << <<Str(<<"h">>), Num(1)>> >>,
                            socket_timeout |-> Num(DefaultTimeout),
                            password |-> Str(<<"p">>)]

C15_WitnessGiven ==
    /\ SentinelMode /\ TimeoutPassed /\ TheCall.args["timeout"] = Num(7)
    /\ SentinelEventsOf(TheCall) = {1}
    /\ TheCall.events[1].socket_timeout = Num(7)

----------------------------------------------------------------------------
(* The course of one call *)

\* A step of the call of t: the event loop runs the task, or the transport
\* completes the operation the task awaits.
Progress(t) ==
    \/ \E o \in Outcomes : FromUrl(t, o)
    \/ \E o \in Outcomes : ResumeFromUrl(t, o)
    \/ \E o \in Outcomes : SentinelNew(t, o)
    \/ \E o \in Outcomes : MasterFor(t, o)
    \/ Select(t)
    \/ \E o \in Outcomes : ResumeSelect(t, o)

\* The event loop runs every task that can run, and every awaited transport
\* operation completes or fails.
LiveSpec == ConcurrentSpec /\ \A t \in Tasks : WF_vars(Progress(t))

\* The state of the specification's machine a call record is in.
Phase(c) ==
    IF c.pc = "idle" THEN "UNRESOLVED"
    ELSE IF c.pc \in {"from_url", "await_from_url"} THEN "DIRECT_CONNECTING"
    ELSE IF c.pc \in {"Sentinel", "master_for"} THEN "SENTINEL_DISCOVERING"
    ELSE IF c.pc \in {"select", "await_select"} THEN "SENTINEL_SELECTING"
    ELSE IF c.result.kind = "returned" THEN "CONNECTED"
    ELSE "FAILED"

Terminal == {"CONNECTED", "FAILED"}

\* The transitions within one call, its branch apart.
Transitions ==
    {<<"DIRECT_CONNECTING", "CONNECTED">>, <<"DIRECT_CONNECTING", "FAILED">>,
     <<"SENTINEL_DISCOVERING", "SENTINEL_SELECTING">>, <<"SENTINEL_DISCOVERING", "FAILED">>,
     <<"SENTINEL_SELECTING", "CONNECTED">>, <<"SENTINEL_SELECTING", "FAILED">>}

\* This step is t calling connect.
Calls(t) == started' = started + 1 /\ calls'[t] # calls[t]

C16_State ==
    \A t \in Tasks :
        LET c == calls[t]
        IN /\ c.pc = "done" <=> c.result.kind \in {"returned", "raised"}
           /\ c.faults # <<>> => Phase(c) = "FAILED"
           /\ Phase(c) = "CONNECTED" => c.faults = <<>>

C16_Step ==
    \A t \in Tasks :
        LET p == Phase(calls[t])
            q == Phase(calls'[t])
        IN IF Calls(t)
           THEN /\ p \in Terminal \cup {"UNRESOLVED"}
                /\ q = IF SentinelMode THEN "SENTINEL_DISCOVERING" ELSE "DIRECT_CONNECTING"
           ELSE /\ p # q => <<p, q>> \in Transitions
                /\ p \in Terminal => calls'[t] = calls[t]
                /\ calls[t].faults # <<>> => calls'[t].events = calls[t].events

C16_Ends ==
    \A t \in Tasks :
        (calls[t].pc \notin {"idle", "done"}) ~> (Phase(calls[t]) \in Terminal)

\* C16: a call goes UNRESOLVED, then DIRECT_CONNECTING or
\* SENTINEL_DISCOVERING by the connector's mode, SENTINEL_SELECTING only from
\* SENTINEL_DISCOVERING, and ends in CONNECTED or FAILED; a call in which a
\* transport operation failed is FAILED and issues nothing more; nothing but
\* a new call changes a call that has ended; and, the tasks being run and the
\* awaited operations completing, every call that started ends.
C16_StateMachine == []C16_State /\ [][C16_Step]_vars /\ C16_Ends

C16_Witness ==
    /\ Phase(calls["t1"]) = "CONNECTED" /\ OpsOf(calls["t1"]) = SentinelOps
    /\ Phase(calls["t2"]) = "FAILED" /\ OpsOf(calls["t2"]) = <<"Sentinel", "master_for">>
    /\ calls["t2"].faults = <<"ConnectionError">>

C16_WitnessDirect ==
    /\ Phase(calls["t1"]) = "FAILED" /\ OpsOf(calls["t1"]) = <<"from_url">>
    /\ Phase(calls["t2"]) = "CONNECTED" /\ started = 2

----------------------------------------------------------------------------
(* Where a sentinel call gives up the event loop *)

\* The call of t is on the sentinel path and has not ended.
InSentinelCall(t) == calls[t].pc \in SentinelPcs

\* In this step the task of t, its call not ended, hands the event loop back.
Yields(t) == running = t /\ running' # t /\ calls'[t].pc # "done"

\* In this step the call of t issues the operation op.
Issues(t, op) ==
    /\ Len(calls'[t].events) = Len(calls[t].events) + 1
    /\ calls'[t].events[Len(calls'[t].events)].op = op

C17_TwoPoints ==
    \A t \in Tasks :
        InSentinelCall(t)
            => (Yields(t) <=> (Issues(t, "Sentinel") /\ calls'[t].pc # "done")
                                \/ Issues(t, "select"))

\* C17 as stated: a sentinel call hands the event loop back at the
\* construction of the sentinel client and at select, and nowhere else.
C17_YieldsAtHandshakeAndSelect == [][C17_TwoPoints]_vars

C17_Suspended ==
    \A t \in Tasks :
        InSentinelCall(t) => (running # t <=> calls[t].pc = "await_select")

C17_OnePoint ==
    \A t \in Tasks :
        /\ InSentinelCall(t) => (Yields(t) <=> Issues(t, "select"))
        /\ InSentinelCall(t) /\ calls[t].pc # "await_select"
              => \A u \in Tasks \ {t} : calls'[u] = calls[u]

\* C17, amended: a sentinel call hands the event loop back at one point, the
\* awaited select: that is the only place of the call at which the task is
\* suspended, and only while it is suspended there does another task take a
\* step; from the construction of the sentinel client through master_for to
\* the issue of select the task runs without a switch.
C17_YieldsAtSelectOnly == []C17_Suspended /\ [][C17_OnePoint]_vars

\* One task waits in select while the other, run in between, has made its
\* sentinel client and goes on to master_for without a switch.
C17_Witness ==
    /\ calls["t1"].pc = "await_select" /\ calls["t2"].pc = "master_for"
    /\ running = "t2"
    /\ OpsOf(calls["t2"]) = <<"Sentinel">>

----------------------------------------------------------------------------
(* The master service of a sentinel call *)

\* C18: whenever a call on the sentinel path asks for the master, the
\* service name it passes is set: no connector has connection_type
\* "sentinel" and service None when master_for is called.
C18_MasterServiceSet ==
    \A i \in 1..Len(TheCall.events) :
        TheCall.events[i].op = "master_for"
            => /\ connector.connection_type = Str("sentinel")
               /\ TheCall.events[i].service # None

====
